---- MODULE Spec2Model ----
(***************************************************************************)
(* Moose Jaw transit guide: the itinerary search of App.tsx (planResult),  *)
(* with the schedule index it reads, the reachability filter, the          *)
(* nearest-stop resolver and the address form that uses them.              *)
(*                                                                         *)
(* Four specifications share the variables: Spec (the search under a       *)
(* changing query and clock), NightSpec (the search on trips around        *)
(* midnight), SnapSpec (addresses geocoded, snapped to stops, cleared and  *)
(* swapped) and LookupSpec (the debounce timers and suggestion lookups of  *)
(* the two address fields).                                                *)
(*                                                                         *)
(* Conventions of the model                                                *)
(*  - A GTFS time "HH:MM:SS" is the tuple <<HH, MM, SS>> of its fields.    *)
(*    The feed modelled here has SS = 00 throughout, so hours * 60 +       *)
(*    minutes + seconds / 60 is an integer.                                *)
(*  - Sequences are 1-based: an index i of the source is i + 1 here and    *)
(*    findIndex's "not found" (-1) is 0.                                   *)
(*  - null / undefined is the record Null; an object key the source       *)
(*    leaves out (serviceNote) is a field the record does not have.        *)
(*  - All stops and coordinates lie on one meridian (stop_lon = lng = 0).  *)
(*    There the haversine distance is earthRadiusKm * |dLat| (radians), a  *)
(*    positive multiple of |lat - stop_lat|; distances are kept in units   *)
(*    of one step of latitude.                                             *)
(***************************************************************************)
EXTENDS Integers, Sequences, FiniteSets, TLC

VARIABLES
  trips,              \* Trip[], rows of trips.txt
  stopTimesByTrip,    \* Map<trip_id, StopTime[]>
  origin,             \* Stop | null
  destination,        \* Stop | null
  destinationResult,  \* AddressResult | null (only .location is read here)
  nowMinutes,         \* minutes since local midnight
  planResult,         \* null | error | direct | transfer
  addressResult,      \* AddressResult | null of the origin address
  addressClosestStop, \* { stop, distanceKm } | null
  addressPending,     \* handleAddressSelect waiting for the geocoder, with
                      \* the destination its closure holds; null when none
  destinationPending, \* handleDestinationSelect is waiting for the geocoder
  addressInput,       \* text of the origin address field
  addressOptions,     \* AddressSuggestion[]
  addressLoading,     \* boolean
  mapsError,          \* string | null
  addressTimeout,     \* addressTimeout.current: the timer set last, with
                      \* its value; null before the first one
  lookups,            \* calls of lookupAddressSuggestions waiting for the
                      \* predictions, each with its number and query
  lookupsStarted,     \* how many such calls have been made
  destinationInput,   \* text of the destination address field
  addressSelection,   \* AddressSuggestion | null picked in the origin field
  destinationSelection, \* AddressSuggestion | null of the destination field
  destinationTimeout, \* the destination field's counterpart of addressTimeout
  timers,             \* the debounce timers that are pending, each with its
                      \* field and the value it will look up
  destinationLookups  \* queries of lookupDestinationSuggestions waiting for
                      \* the predictions

engineVars == <<trips, stopTimesByTrip, origin, destination, destinationResult,
                nowMinutes, planResult>>

snapVars == <<addressResult, addressClosestStop, addressPending, destinationPending>>

lookupVars == <<addressInput, addressOptions, addressLoading, mapsError,
                addressTimeout, lookups, lookupsStarted>>

timerVars == <<destinationTimeout, timers, destinationLookups>>

fieldVars == <<destinationInput, addressSelection, destinationSelection,
               timerVars>>

vars == <<engineVars, snapVars, lookupVars, fieldVars>>

Null == [kind |-> "null"]

(***************************************************************************)
(* Bounds of the model.                                                    *)
(***************************************************************************)
\* at most this many trips of TripPool are loaded
MaxTrips == 3
\* the clock shows the full hours 07:00 .. MaxNowHour:00
MaxNowHour == 9

NowHours == 7 .. MaxNowHour

(***************************************************************************)
(* Small helpers.                                                          *)
(***************************************************************************)
Abs(x) == IF x < 0 THEN 0 - x ELSE x

RECURSIVE Flatten(_)
Flatten(ss) == IF ss = <<>> THEN <<>> ELSE Head(ss) \o Flatten(Tail(ss))

\* Array.prototype.sort, a stable sort; cmp[i, j] is the value of the
\* comparator on (s[i], s[j]).
StableSort(s, cmp) ==
  LET n == Len(s)
      rank(i) == 1 + Cardinality({j \in 1..n :
                      \/ cmp[j, i] < 0
                      \/ cmp[j, i] = 0 /\ j < i})
  IN  [k \in 1..n |-> s[CHOOSE i \in 1..n : rank(i) = k]]

(***************************************************************************)
(* The static GTFS tables.                                                 *)
(***************************************************************************)
Stop(id, lat) == [stop_id |-> id, stop_lat |-> lat, stop_lon |-> 0]

\* stops.txt
stops == << Stop("A", 0), Stop("T", 2), Stop("C", 4), Stop("B", 5) >>

\* routes.txt (route "r9" of some trips has no row)
routes == << [route_id |-> "r1"], [route_id |-> "r2"] >>

StopTime(trip, arr, dep, stop, seq) ==
  [trip_id |-> trip, arrival_time |-> arr, departure_time |-> dep,
   stop_id |-> stop, stop_sequence |-> seq]

Trip(id, route) == [trip_id |-> id, route_id |-> route]

\* The trips a feed is drawn from: a row of trips.txt with its rows of
\* stop_times.txt, in file order.
TripPool == <<
  \* a later direct A -> T -> B, listed before the earlier one
  [trip |-> Trip("d2", "r1"), rows |-> <<
      StopTime("d2", <<9, 0, 0>>, <<9, 0, 0>>, "A", 1),
      StopTime("d2", <<9, 10, 0>>, <<9, 11, 0>>, "T", 2),
      StopTime("d2", <<9, 20, 0>>, <<9, 20, 0>>, "B", 3) >>],
  \* the direct trip A -> B of 08:00, rows out of order in the file
  [trip |-> Trip("d1", "r1"), rows |-> <<
      StopTime("d1", <<8, 10, 0>>, <<8, 10, 0>>, "B", 2),
      StopTime("d1", <<7, 59, 0>>, <<8, 0, 0>>, "A", 1) >>],
  \* a late second leg T -> Z -> B through a stop missing from stops.txt
  [trip |-> Trip("g1", "r9"), rows |-> <<
      StopTime("g1", <<9, 40, 0>>, <<9, 40, 0>>, "T", 1),
      StopTime("g1", <<9, 50, 0>>, <<9, 50, 0>>, "Z", 2),
      StopTime("g1", <<10, 0, 0>>, <<10, 0, 0>>, "B", 3) >>],
  \* first leg A -> C -> T, 08:00 - 08:20
  [trip |-> Trip("x1", "r2"), rows |-> <<
      StopTime("x1", <<8, 0, 0>>, <<8, 0, 0>>, "A", 1),
      StopTime("x1", <<8, 15, 0>>, <<8, 15, 0>>, "C", 2),
      StopTime("x1", <<8, 20, 0>>, <<8, 20, 0>>, "T", 3) >>],
  \* second leg C -> T -> B, 08:10 - 08:45: it leaves C before x1 is there
  [trip |-> Trip("x2", "r1"), rows |-> <<
      StopTime("x2", <<8, 10, 0>>, <<8, 10, 0>>, "C", 1),
      StopTime("x2", <<8, 30, 0>>, <<8, 30, 0>>, "T", 2),
      StopTime("x2", <<8, 45, 0>>, <<8, 45, 0>>, "B", 3) >>],
  \* second leg T -> B that leaves at 08:10, before x1 arrives
  [trip |-> Trip("x3", "r1"), rows |-> <<
      StopTime("x3", <<8, 10, 0>>, <<8, 10, 0>>, "T", 1),
      StopTime("x3", <<8, 25, 0>>, <<8, 25, 0>>, "B", 2) >>],
  \* a later first leg A -> Z -> T, 09:00 - 09:30, through the missing stop
  [trip |-> Trip("x4", "r2"), rows |-> <<
      StopTime("x4", <<9, 0, 0>>, <<9, 0, 0>>, "A", 10),
      StopTime("x4", <<9, 15, 0>>, <<9, 15, 0>>, "Z", 20),
      StopTime("x4", <<9, 30, 0>>, <<9, 30, 0>>, "T", 30) >>],
  \* a loop B -> T -> B
  [trip |-> Trip("l1", "r1"), rows |-> <<
      StopTime("l1", <<8, 0, 0>>, <<8, 0, 0>>, "B", 1),
      StopTime("l1", <<8, 30, 0>>, <<8, 30, 0>>, "T", 2),
      StopTime("l1", <<8, 50, 0>>, <<8, 50, 0>>, "B", 3) >>],
  \* a row that arrives at B the minute it left A
  [trip |-> Trip("z1", "r1"), rows |-> <<
      StopTime("z1", <<8, 30, 0>>, <<8, 30, 0>>, "A", 1),
      StopTime("z1", <<8, 30, 0>>, <<8, 30, 0>>, "B", 2),
      StopTime("z1", <<8, 40, 0>>, <<8, 40, 0>>, "C", 3) >>],
  \* B -> T -> A of 09:00, its rows all with the same stop_sequence
  [trip |-> Trip("q1", "r1"), rows |-> <<
      StopTime("q1", <<9, 0, 0>>, <<9, 0, 0>>, "B", 1),
      StopTime("q1", <<9, 5, 0>>, <<9, 5, 0>>, "T", 1),
      StopTime("q1", <<9, 10, 0>>, <<9, 10, 0>>, "A", 1) >>],
  \* a first leg over midnight written without the 24:00 convention
  [trip |-> Trip("w1", "r2"), rows |-> <<
      StopTime("w1", <<23, 50, 0>>, <<23, 50, 0>>, "A", 1),
      StopTime("w1", <<0, 10, 0>>, <<0, 10, 0>>, "T", 2) >>],
  \* a trip of trips.txt without rows in stop_times.txt
  [trip |-> Trip("e1", "r1"), rows |-> << >>]
>>

\* the coordinates a destination address may resolve to
DestinationLocations == { [lat |-> 3, lng |-> 0], [lat |-> 5, lng |-> 0] }

(***************************************************************************)
(* Schedule index.                                                         *)
(***************************************************************************)
stopById ==
  [id \in {stops[i].stop_id : i \in 1..Len(stops)} |->
     stops[CHOOSE i \in 1..Len(stops) :
       /\ stops[i].stop_id = id
       /\ \A j \in 1..Len(stops) : stops[j].stop_id = id => j <= i]]

routeById ==
  [id \in {routes[i].route_id : i \in 1..Len(routes)} |->
     routes[CHOOSE i \in 1..Len(routes) :
       /\ routes[i].route_id = id
       /\ \A j \in 1..Len(routes) : routes[j].route_id = id => j <= i]]

\* Map.get
MapGet(map, key) == IF key \in DOMAIN map THEN map[key] ELSE Null

\* bySequence with its operands exchanged: a descending sort
bySequenceDescending(a, b) == b.stop_sequence - a.stop_sequence

\* the comparator of the sort of a trip's rows
bySequence(a, b) == a.stop_sequence - b.stop_sequence

\* the stopTimesByTrip memo, from the rows of stop_times.txt
buildStopTimesByTrip(stopTimes) ==
  [id \in {stopTimes[i].trip_id : i \in 1..Len(stopTimes)} |->
     LET list == SelectSeq(stopTimes, LAMBDA st : st.trip_id = id)
     IN  StableSort(list, [i \in 1..Len(list), j \in 1..Len(list) |->
                             bySequence(list[i], list[j])])]

(***************************************************************************)
(* Time arithmetic.                                                        *)
(***************************************************************************)
\* timeToMinutes reduced to a time of day (modulo 24 hours)
timeToMinutesOfDay(value) == (value[1] * 60 + value[2] + value[3] \div 60) % (24 * 60)

\* hours * 60 + minutes + seconds / 60, the hours taken as they are written
timeToMinutes(value) == value[1] * 60 + value[2] + value[3] \div 60

minutesBetween(start, end) == timeToMinutes(end) - timeToMinutes(start)

getNowMinutes(hours, minutes) == hours * 60 + minutes

haversineDistanceKm(a, lat, lon) == Abs(lat - a.stop_lat)

\* stopTimes.findIndex((time, index) => index > after && time.stop_id === id)
findIndex(stopTimes, id, after) ==
  LET hits == {i \in 1..Len(stopTimes) : i > after /\ stopTimes[i].stop_id = id}
  IN  IF hits = {} THEN 0 ELSE CHOOSE i \in hits : \A j \in hits : i <= j

(***************************************************************************)
(* planResult: the itinerary search.                                       *)
(***************************************************************************)
serviceNoteText == "No more departures today. Showing the next available trip."

\* the closest stop after boardIndex whose arrival is after boardMinutes;
\* the first one met wins a tie
pickClosestStopAfterBoard(stopTimes, boardIndex, boardMinutes, destinationLocation) ==
  IF destinationLocation = Null THEN Null
  ELSE
    LET ok == {i \in (boardIndex + 1)..Len(stopTimes) :
                 /\ ~(timeToMinutes(stopTimes[i].arrival_time) <= boardMinutes)
                 /\ MapGet(stopById, stopTimes[i].stop_id) # Null}
        dist(i) == haversineDistanceKm(stopById[stopTimes[i].stop_id],
                                       destinationLocation.lat,
                                       destinationLocation.lng)
    IN  IF ok = {} THEN Null
        ELSE LET best == CHOOSE i \in ok :
                           \A j \in ok : dist(i) < dist(j) \/ (dist(i) = dist(j) /\ i <= j)
             IN  [stopTime |-> stopTimes[best],
                  stop |-> stopById[stopTimes[best].stop_id],
                  distanceKm |-> dist(best)]

\* exactAlight with a destination row accepted when it arrives the minute the
\* trip leaves the origin (>= for >)
exactAlightNotStrict(stopTimes, boardIndex, dest) ==
  LET boardTime == stopTimes[boardIndex]
      destinationIndex == findIndex(stopTimes, dest.stop_id, boardIndex)
  IN  IF /\ destinationIndex >= 1
         /\ timeToMinutes(stopTimes[destinationIndex].arrival_time)
              >= timeToMinutes(boardTime.departure_time)
         /\ MapGet(stopById, stopTimes[destinationIndex].stop_id) # Null
      THEN [stopTime |-> stopTimes[destinationIndex],
            stop |-> stopById[stopTimes[destinationIndex].stop_id]]
      ELSE Null

\* the exact destination stop-time after boarding is taken only when it
\* arrives after the boarding departure and its stop resolves
exactAlight(stopTimes, boardIndex, dest) ==
  LET boardTime == stopTimes[boardIndex]
      destinationIndex == findIndex(stopTimes, dest.stop_id, boardIndex)
  IN  IF /\ destinationIndex >= 1
         /\ timeToMinutes(stopTimes[destinationIndex].arrival_time)
              > timeToMinutes(boardTime.departure_time)
         /\ MapGet(stopById, stopTimes[destinationIndex].stop_id) # Null
      THEN [stopTime |-> stopTimes[destinationIndex],
            stop |-> stopById[stopTimes[destinationIndex].stop_id]]
      ELSE Null

\* the body of trips.forEach in the direct enumeration: the candidates one
\* trip contributes (none or one)
directCandidatesOfTrip(trip, orig, dest, destinationLocation) ==
  IF trip.trip_id \notin DOMAIN stopTimesByTrip THEN <<>>
  ELSE
    LET stopTimes == stopTimesByTrip[trip.trip_id]
        boardIndex == findIndex(stopTimes, orig.stop_id, 0)
    IN
    IF boardIndex < 1 THEN <<>>
    ELSE
      LET boardTime == stopTimes[boardIndex]
          exact == exactAlight(stopTimes, boardIndex, dest)
          alight == IF exact # Null THEN exact
                    ELSE pickClosestStopAfterBoard(
                           stopTimes, boardIndex,
                           timeToMinutes(boardTime.departure_time),
                           destinationLocation)
          boardStop == MapGet(stopById, boardTime.stop_id)
      IN
      IF alight = Null THEN <<>>
      ELSE IF boardTime.stop_sequence >= alight.stopTime.stop_sequence THEN <<>>
      ELSE IF boardStop = Null THEN <<>>
      ELSE << [trip |-> trip,
               route |-> MapGet(routeById, trip.route_id),
               boardStop |-> boardStop,
               alightStop |-> alight.stop,
               boardTime |-> boardTime.departure_time,
               alightTime |-> alight.stopTime.arrival_time,
               boardSequence |-> boardTime.stop_sequence,
               alightSequence |-> alight.stopTime.stop_sequence] >>

candidates(orig, dest, destinationLocation) ==
  Flatten([t \in 1..Len(trips) |->
             directCandidatesOfTrip(trips[t], orig, dest, destinationLocation)])

byBoardTime(a, b) == timeToMinutes(a.boardTime) - timeToMinutes(b.boardTime)

\* sortedByTime without the sort
sortedByTimeUnsorted(orig, dest, destinationLocation) ==
  candidates(orig, dest, destinationLocation)

\* [...list].sort(byBoardTime)
sortByBoardTime(list) ==
  StableSort(list, [i \in 1..Len(list), j \in 1..Len(list) |->
                      byBoardTime(list[i], list[j])])

sortedByTime(orig, dest, destinationLocation) ==
  sortByBoardTime(candidates(orig, dest, destinationLocation))

\* isUpcoming with a departure at this very minute counted as gone (> for >=)
isUpcomingStrict(boardTime, now) == timeToMinutes(boardTime) > now

isUpcoming(boardTime, now) == timeToMinutes(boardTime) >= now

\* directResult as it was before the rollover: an error after the last
\* departure
directResultEndOfServiceError(sorted, now) ==
  LET upcoming == SelectSeq(sorted, LAMBDA c : isUpcoming(c.boardTime, now))
  IN  IF Len(upcoming) = 0
      THEN [kind |-> "error", error |-> "No more departures today from this stop."]
      ELSE [kind |-> "direct", nextTrip |-> Head(upcoming),
            alternatives |-> Tail(upcoming)]

\* directResult whose rollover shows the trip that left last
directResultLastDeparted(sorted, now) ==
  LET upcoming == SelectSeq(sorted, LAMBDA c : isUpcoming(c.boardTime, now))
  IN  IF Len(upcoming) = 0
      THEN [kind |-> "direct", nextTrip |-> sorted[Len(sorted)],
            alternatives |-> SubSeq(sorted, 1, Len(sorted) - 1),
            serviceNote |-> serviceNoteText]
      ELSE [kind |-> "direct", nextTrip |-> Head(upcoming),
            alternatives |-> Tail(upcoming)]

\* the direct branch of planResult, taken when sorted is not empty
directResult(sorted, now) ==
  LET upcoming == SelectSeq(sorted, LAMBDA c : isUpcoming(c.boardTime, now))
  IN  IF Len(upcoming) = 0
      THEN [kind |-> "direct", nextTrip |-> Head(sorted),
            alternatives |-> Tail(sorted), serviceNote |-> serviceNoteText]
      ELSE [kind |-> "direct", nextTrip |-> Head(upcoming),
            alternatives |-> Tail(upcoming)]

\* createLeg without the test that both stops resolve
createLegUnresolved(trip, boardTime, alightTime) ==
  << [trip |-> trip,
      route |-> MapGet(routeById, trip.route_id),
      boardStop |-> MapGet(stopById, boardTime.stop_id),
      alightStop |-> MapGet(stopById, alightTime.stop_id),
      boardTime |-> boardTime.departure_time,
      alightTime |-> alightTime.arrival_time,
      boardSequence |-> boardTime.stop_sequence,
      alightSequence |-> alightTime.stop_sequence] >>

\* createLeg: no leg (the empty sequence) when a stop does not resolve
createLeg(trip, boardTime, alightTime) ==
  LET boardStop == MapGet(stopById, boardTime.stop_id)
      alightStop == MapGet(stopById, alightTime.stop_id)
  IN  IF boardStop = Null \/ alightStop = Null THEN <<>>
      ELSE << [trip |-> trip,
               route |-> MapGet(routeById, trip.route_id),
               boardStop |-> boardStop,
               alightStop |-> alightStop,
               boardTime |-> boardTime.departure_time,
               alightTime |-> alightTime.arrival_time,
               boardSequence |-> boardTime.stop_sequence,
               alightSequence |-> alightTime.stop_sequence] >>

\* the index at which the second-leg search finds the destination on a trip
leg2DestIndex(stopTimes, dest) == findIndex(stopTimes, dest.stop_id, 0)

\* the second legs one trip files under boarding stop stopId
leg2OfTrip(trip, stopId, dest) ==
  IF trip.trip_id \notin DOMAIN stopTimesByTrip THEN <<>>
  ELSE
    LET stopTimes == stopTimesByTrip[trip.trip_id]
        destIndex == leg2DestIndex(stopTimes, dest)
    IN  IF destIndex <= 1 THEN <<>>
        ELSE Flatten([i \in 1..(destIndex - 1) |->
               IF stopTimes[i].stop_id = stopId
               THEN createLeg(trip, stopTimes[i], stopTimes[destIndex])
               ELSE <<>>])

\* leg2ByStop.get(stopId) (the empty sequence when there is no entry)
leg2ByStop(stopId, dest) ==
  Flatten([t \in 1..Len(trips) |-> leg2OfTrip(trips[t], stopId, dest)])

\* keepsPairing without the layover test
keepsPairingAnyLayover(layover, totalMinutes) == ~(totalMinutes < 0)

\* a pairing is kept when neither its layover nor its total is negative
keepsPairing(layover, totalMinutes) == ~(layover < 0) /\ ~(totalMinutes < 0)

\* the plans of first leg leg1 with each second leg of leg2Options
pairLegs(leg1, leg2Options) ==
  Flatten([k \in 1..Len(leg2Options) |->
    LET leg2 == leg2Options[k]
        layover == minutesBetween(leg1.alightTime, leg2.boardTime)
        totalMinutes == minutesBetween(leg1.boardTime, leg2.alightTime)
    IN  IF keepsPairing(layover, totalMinutes)
        THEN << [firstLeg |-> leg1, secondLeg |-> leg2,
                 transferStop |-> leg1.alightStop,
                 layoverMinutes |-> layover,
                 totalMinutes |-> totalMinutes] >>
        ELSE <<>>])

\* the plans one trip contributes as the first leg
transferPlansOfTrip(trip, orig, dest) ==
  IF trip.trip_id \notin DOMAIN stopTimesByTrip THEN <<>>
  ELSE
    LET stopTimes == stopTimesByTrip[trip.trip_id]
        originIndex == findIndex(stopTimes, orig.stop_id, 0)
    IN  IF originIndex < 1 \/ originIndex >= Len(stopTimes) THEN <<>>
        ELSE Flatten([k \in 1..(Len(stopTimes) - originIndex) |->
               LET alightTime == stopTimes[originIndex + k]
                   leg1 == createLeg(trip, stopTimes[originIndex], alightTime)
               IN  IF leg1 = <<>> THEN <<>>
                   ELSE pairLegs(leg1[1], leg2ByStop(alightTime.stop_id, dest))])

transferPlans(orig, dest) ==
  Flatten([t \in 1..Len(trips) |-> transferPlansOfTrip(trips[t], orig, dest)])

\* byBoardTimeThenTotal without the tie-break
byBoardTimeOnly(a, b) ==
  timeToMinutes(a.firstLeg.boardTime) - timeToMinutes(b.firstLeg.boardTime)

byBoardTimeThenTotal(a, b) ==
  LET timeDiff == timeToMinutes(a.firstLeg.boardTime) - timeToMinutes(b.firstLeg.boardTime)
  IN  IF timeDiff # 0 THEN timeDiff ELSE a.totalMinutes - b.totalMinutes

sortedTransfers(orig, dest) ==
  LET list == transferPlans(orig, dest)
  IN  StableSort(list, [i \in 1..Len(list), j \in 1..Len(list) |->
                          byBoardTimeThenTotal(list[i], list[j])])

\* the transfer branch of planResult, taken when sorted is not empty
transferResult(sorted, now) ==
  LET upcomingTransfers ==
        SelectSeq(sorted, LAMBDA p : isUpcoming(p.firstLeg.boardTime, now))
  IN  IF Len(upcomingTransfers) = 0
      THEN [kind |-> "transfer", nextTransfer |-> Head(sorted),
            alternatives |-> Tail(sorted), serviceNote |-> serviceNoteText]
      ELSE [kind |-> "transfer", nextTransfer |-> Head(upcomingTransfers),
            alternatives |-> Tail(upcomingTransfers)]

sameStopError == [kind |-> "error", error |-> "Pick two different stops to build a route."]

noTripsError == [kind |-> "error", error |-> "No trips found between those stops."]

\* the transfer search, entered when there is no direct candidate
transferSearch(orig, dest, now) ==
  LET sorted == sortedTransfers(orig, dest)
  IN  IF Len(sorted) = 0 THEN noTripsError ELSE transferResult(sorted, now)

\* plan without the same-stop test
planWithoutSameStopTest(orig, dest, now, destResult) ==
  IF orig = Null \/ dest = Null THEN Null
  ELSE
    LET destinationLocation == IF destResult = Null THEN Null ELSE destResult.location
        sorted == sortedByTime(orig, dest, destinationLocation)
    IN  IF Len(sorted) > 0 THEN directResult(sorted, now)
        ELSE transferSearch(orig, dest, now)

\* plan that searches transfers when every direct candidate has left
planTransferAfterLastDirect(orig, dest, now, destResult) ==
  IF orig = Null \/ dest = Null THEN Null
  ELSE IF orig.stop_id = dest.stop_id THEN sameStopError
  ELSE
    LET destinationLocation == IF destResult = Null THEN Null ELSE destResult.location
        sorted == sortedByTime(orig, dest, destinationLocation)
    IN  IF Len(SelectSeq(sorted, LAMBDA c : isUpcoming(c.boardTime, now))) > 0
        THEN directResult(sorted, now)
        ELSE transferSearch(orig, dest, now)

\* the memo from the sorted direct candidates on: the direct branch when
\* there is one, the transfer search otherwise
planOfSorted(sorted, orig, dest, now) ==
  IF Len(sorted) > 0 THEN directResult(sorted, now)
  ELSE transferSearch(orig, dest, now)

\* the planResult memo
plan(orig, dest, now, destResult) ==
  IF orig = Null \/ dest = Null THEN Null
  ELSE IF orig.stop_id = dest.stop_id THEN sameStopError
  ELSE
    LET destinationLocation == IF destResult = Null THEN Null ELSE destResult.location
    IN  planOfSorted(sortedByTime(orig, dest, destinationLocation), orig, dest, now)

(***************************************************************************)
(* The reachability filter and the nearest-stop resolver.                  *)
(***************************************************************************)
\* the trips of trips.txt that have an entry in stopTimesByTrip
indexedTrips == {t \in 1..Len(trips) : trips[t].trip_id \in DOMAIN stopTimesByTrip}

\* directReachable with every stop of a trip that serves the destination,
\* those after it included
directReachableWholeTrip(dest) ==
  UNION { LET stopTimes == stopTimesByTrip[trips[t].trip_id]
              destIndex == findIndex(stopTimes, dest.stop_id, 0)
          IN  IF destIndex <= 1 THEN {}
              ELSE {stopTimes[i].stop_id : i \in 1..Len(stopTimes)}
          : t \in indexedTrips }

\* the first loop of buildEligibleStopIds: the stops before the first row of
\* the destination, on the trips where that row is not the first one
directReachable(dest) ==
  UNION { LET stopTimes == stopTimesByTrip[trips[t].trip_id]
              destIndex == findIndex(stopTimes, dest.stop_id, 0)
          IN  IF destIndex <= 1 THEN {}
              ELSE {stopTimes[i].stop_id : i \in 1..(destIndex - 1)}
          : t \in indexedTrips }

\* the second loop: the stops before any row of a stop of direct
transferReachable(direct) ==
  IF direct = {} THEN {}
  ELSE UNION { LET stopTimes == stopTimesByTrip[trips[t].trip_id]
               IN  UNION { IF stopTimes[i].stop_id \in direct
                           THEN {stopTimes[j].stop_id : j \in 1..(i - 1)}
                           ELSE {}
                           : i \in 1..Len(stopTimes) }
               : t \in indexedTrips }

buildEligibleStopIds(dest) ==
  directReachable(dest) \cup transferReachable(directReachable(dest))

\* the eligibleStopsForDestination memo
eligibleStopsForDestination(dest) ==
  IF dest = Null THEN stops
  ELSE LET eligibleStopIds == buildEligibleStopIds(dest)
       IN  IF eligibleStopIds = {} THEN <<>>
           ELSE SelectSeq(stops, LAMBDA stop : stop.stop_id \in eligibleStopIds)

\* isCloser that lets a stop at the same distance replace the choice (<= for <)
isCloserOrEqual(distance, nearestDistance) == distance <= nearestDistance

\* the test of the scan: distance < nearestDistance
isCloser(distance, nearestDistance) == distance < nearestDistance

\* the forEach of findNearestStop from row i on, nearest being the choice so far
RECURSIVE nearestScan(_, _, _, _, _)
nearestScan(stopList, lat, lon, i, nearest) ==
  IF i > Len(stopList) THEN nearest
  ELSE LET distance == haversineDistanceKm(stopList[i], lat, lon)
       IN  nearestScan(stopList, lat, lon, i + 1,
             IF isCloser(distance, nearest.distanceKm)
             THEN [stop |-> stopList[i], distanceKm |-> distance]
             ELSE nearest)

\* findNearestStop, called with a list that is not empty: the scan starts
\* from the first stop and visits every stop
findNearestStop(stopList, lat, lon) ==
  nearestScan(stopList, lat, lon, 1,
    [stop |-> stopList[1],
     distanceKm |-> haversineDistanceKm(stopList[1], lat, lon)])

\* pickNearestStop without the fallback list
pickNearestStopPrimaryOnly(primary, fallback, lat, lon) ==
  IF Len(primary) > 0 THEN findNearestStop(primary, lat, lon)
  ELSE Null

pickNearestStop(primary, fallback, lat, lon) ==
  IF Len(primary) > 0 THEN findNearestStop(primary, lat, lon)
  ELSE IF Len(fallback) > 0 THEN findNearestStop(fallback, lat, lon)
  ELSE Null

(***************************************************************************)
(* The state machine: a feed is loaded, then the stops of the query and    *)
(* the clock change; planResult is recomputed with each of them.           *)
(***************************************************************************)
\* the feeds: up to MaxTrips trips of the pool, in file order
Feeds == {S \in SUBSET (1..Len(TripPool)) : Cardinality(S) <= MaxTrips}

RECURSIVE pickRows(_, _)
pickRows(S, i) ==
  IF i > Len(TripPool) THEN <<>>
  ELSE (IF i \in S THEN TripPool[i].rows ELSE <<>>) \o pickRows(S, i + 1)

RECURSIVE pickTrips(_, _)
pickTrips(S, i) ==
  IF i > Len(TripPool) THEN <<>>
  ELSE (IF i \in S THEN <<TripPool[i].trip>> ELSE <<>>) \o pickTrips(S, i + 1)

\* the useState initial values of the address form
InitForm ==
  /\ addressResult = Null
  /\ addressClosestStop = Null
  /\ addressPending = Null
  /\ destinationPending = FALSE
  /\ addressInput = <<>>
  /\ addressOptions = <<>>
  /\ addressLoading = FALSE
  /\ mapsError = Null
  /\ addressTimeout = Null
  /\ lookups = {}
  /\ lookupsStarted = 0
  /\ destinationInput = <<>>
  /\ addressSelection = Null
  /\ destinationSelection = Null
  /\ destinationTimeout = Null
  /\ timers = {}
  /\ destinationLookups = {}

Init ==
  /\ \E S \in Feeds :
       /\ trips = pickTrips(S, 1)
       /\ stopTimesByTrip = buildStopTimesByTrip(pickRows(S, 1))
  /\ origin = Null
  /\ destination = Null
  /\ destinationResult = Null
  /\ nowMinutes \in {getNowMinutes(h, 0) : h \in NowHours}
  /\ planResult = Null
  /\ InitForm

\* setOrigin(stop)
SetOrigin(stop) ==
  /\ origin' = stop
  /\ planResult' = plan(stop, destination, nowMinutes, destinationResult)
  /\ UNCHANGED <<trips, stopTimesByTrip, destination, destinationResult, nowMinutes>>
  /\ UNCHANGED <<snapVars, lookupVars, fieldVars>>

\* setDestination(stop) with setDestinationResult(result)
SetDestination(stop, result) ==
  /\ destination' = stop
  /\ destinationResult' = result
  /\ planResult' = plan(origin, stop, nowMinutes, result)
  /\ UNCHANGED <<trips, stopTimesByTrip, origin, nowMinutes>>
  /\ UNCHANGED <<snapVars, lookupVars, fieldVars>>

\* the minute timer: setNowMinutes(getNowMinutes())
Tick(hours) ==
  /\ nowMinutes' = getNowMinutes(hours, 0)
  /\ planResult' = plan(origin, destination, nowMinutes', destinationResult)
  /\ UNCHANGED <<trips, stopTimesByTrip, origin, destination, destinationResult>>
  /\ UNCHANGED <<snapVars, lookupVars, fieldVars>>

StopChoices == {stops[i] : i \in 1..Len(stops)} \cup {Null}

ResultChoices == {[location |-> l] : l \in DestinationLocations} \cup {Null}

Next ==
  \/ \E stop \in StopChoices : SetOrigin(stop)
  \/ \E stop \in StopChoices, result \in ResultChoices : SetDestination(stop, result)
  \/ \E hours \in NowHours : Tick(hours)

Spec == Init /\ [][Next]_vars

(***************************************************************************)
(* The search over a feed whose service runs past midnight.                *)
(***************************************************************************)
\* at most this many trips of NightPool are loaded
MaxNightTrips == 3

\* The late trips a feed is drawn from, in file order.
NightPool == <<
  \* a direct A -> B of 24:10, listed before the one of 23:50
  [trip |-> Trip("n2", "r1"), rows |-> <<
      StopTime("n2", <<24, 10, 0>>, <<24, 10, 0>>, "A", 1),
      StopTime("n2", <<24, 20, 0>>, <<24, 20, 0>>, "B", 2) >>],
  \* the direct A -> B of 23:50
  [trip |-> Trip("n1", "r1"), rows |-> <<
      StopTime("n1", <<23, 50, 0>>, <<23, 50, 0>>, "A", 1),
      StopTime("n1", <<23, 58, 0>>, <<23, 58, 0>>, "B", 2) >>],
  \* a first leg A -> T that arrives at 23:50
  [trip |-> Trip("n3", "r2"), rows |-> <<
      StopTime("n3", <<23, 30, 0>>, <<23, 30, 0>>, "A", 1),
      StopTime("n3", <<23, 50, 0>>, <<23, 50, 0>>, "T", 2) >>],
  \* a second leg T -> B that leaves at 24:10
  [trip |-> Trip("n4", "r1"), rows |-> <<
      StopTime("n4", <<24, 10, 0>>, <<24, 10, 0>>, "T", 1),
      StopTime("n4", <<24, 25, 0>>, <<24, 25, 0>>, "B", 2) >>],
  \* the same second leg written as 00:10
  [trip |-> Trip("n5", "r1"), rows |-> <<
      StopTime("n5", <<0, 10, 0>>, <<0, 10, 0>>, "T", 1),
      StopTime("n5", <<0, 25, 0>>, <<0, 25, 0>>, "B", 2) >>]
>>

NightFeeds == {S \in SUBSET (1..Len(NightPool)) : Cardinality(S) <= MaxNightTrips}

RECURSIVE pickNightRows(_, _)
pickNightRows(S, i) ==
  IF i > Len(NightPool) THEN <<>>
  ELSE (IF i \in S THEN NightPool[i].rows ELSE <<>>) \o pickNightRows(S, i + 1)

RECURSIVE pickNightTrips(_, _)
pickNightTrips(S, i) ==
  IF i > Len(NightPool) THEN <<>>
  ELSE (IF i \in S THEN <<NightPool[i].trip>> ELSE <<>>) \o pickNightTrips(S, i + 1)

\* the times <<hours, minutes>> the clock shows: midnight, noon, 23:00 and
\* the last minute of the day
NightClock == { <<0, 0>>, <<12, 0>>, <<23, 0>>, <<23, 59>> }

InitNight ==
  /\ \E S \in NightFeeds :
       /\ trips = pickNightTrips(S, 1)
       /\ stopTimesByTrip = buildStopTimesByTrip(pickNightRows(S, 1))
  /\ origin = Null
  /\ destination = Null
  /\ destinationResult = Null
  /\ nowMinutes \in {getNowMinutes(c[1], c[2]) : c \in NightClock}
  /\ planResult = Null
  /\ InitForm

\* the minute timer at hours:minutes
TickAt(hours, minutes) ==
  /\ nowMinutes' = getNowMinutes(hours, minutes)
  /\ planResult' = plan(origin, destination, nowMinutes', destinationResult)
  /\ UNCHANGED <<trips, stopTimesByTrip, origin, destination, destinationResult>>
  /\ UNCHANGED <<snapVars, lookupVars, fieldVars>>

NextNight ==
  \/ \E stop \in StopChoices : SetOrigin(stop)
  \/ \E stop \in StopChoices, result \in ResultChoices : SetDestination(stop, result)
  \/ \E c \in NightClock : TickAt(c[1], c[2])

NightSpec == InitNight /\ [][NextNight]_vars

(***************************************************************************)
(* The address form: an address picked for the origin or the destination   *)
(* is geocoded, and the stops of the query are snapped to the answer.      *)
(* handleAddressSelect and handleDestinationSelect each run up to their    *)
(* await in one step and from the geocoder's answer on in another; the     *)
(* re-snap effect runs with the render that follows a handler. A field may *)
(* also be cleared, and the two fields swapped.                            *)
(***************************************************************************)
\* at most this many trips of TripPool are loaded while the form is used
MaxSnapTrips == 2

SnapFeeds == {S \in Feeds : Cardinality(S) <= MaxSnapTrips}

\* the coordinates an origin address may resolve to
AddressLocations == { [lat |-> 1, lng |-> 0], [lat |-> 3, lng |-> 0] }

\* what the geocoder may answer for an origin and for a destination address
AddressGeocodes ==
  {[formatted_address |-> <<"1", "2">>, location |-> l] : l \in AddressLocations}

DestinationGeocodes ==
  {[formatted_address |-> <<"9">>, location |-> l] : l \in DestinationLocations}

\* the selection a handler stores for the geocoder's answer
selectionOf(result) ==
  [description |-> result.formatted_address,
   place_id |-> result.formatted_address, source |-> "google"]

lookupFailedText == "Unable to look up that address."

\* the stop pickNearestStop answers for a location, given the destination
snapAddress(dest, location) ==
  pickNearestStop(eligibleStopsForDestination(dest), stops,
                  location.lat, location.lng)

\* applyAddressLocation in a closure whose destination is dest: the new
\* addressClosestStop
applyAddressLocation(dest, location) ==
  IF dest = Null THEN Null ELSE snapAddress(dest, location)

\* resnapEffect that never runs its body: the handler's addressClosestStop
\* stays
resnapEffectSkipped(result, dest, closest) == closest

\* the re-snap effect: the new addressClosestStop, closest being the one set
\* by the handler
resnapEffect(result, dest, closest) ==
  IF result = Null \/ dest = Null THEN closest
  ELSE snapAddress(dest, result.location)

stopOf(closest) == IF closest = Null THEN Null ELSE closest.stop

InitSnap ==
  /\ \E S \in SnapFeeds :
       /\ trips = pickTrips(S, 1)
       /\ stopTimesByTrip = buildStopTimesByTrip(pickRows(S, 1))
  /\ origin = Null
  /\ destination = Null
  /\ destinationResult = Null
  /\ nowMinutes = getNowMinutes(MaxNowHour, 0)
  /\ planResult = Null
  /\ InitForm

\* handleAddressSelect(_, null)
HandleAddressSelectClear ==
  /\ addressResult' = Null
  /\ addressClosestStop' = Null
  /\ mapsError' = Null
  /\ addressSelection' = Null
  /\ origin' = Null
  /\ planResult' = Null   \* the memo without an origin
  /\ UNCHANGED <<trips, stopTimesByTrip, destination, destinationResult, nowMinutes>>
  /\ UNCHANGED <<addressPending, destinationPending>>
  /\ UNCHANGED <<addressInput, addressOptions, addressLoading, addressTimeout,
                 lookups, lookupsStarted>>
  /\ UNCHANGED <<destinationInput, destinationSelection, timerVars>>

\* handleAddressSelect(_, value) up to the await of the geocoder
HandleAddressSelectStart ==
  /\ addressPending = Null
  /\ addressResult' = Null
  /\ addressClosestStop' = Null
  /\ mapsError' = Null
  /\ addressLoading' = TRUE
  /\ addressPending' = [destination |-> destination]
  /\ UNCHANGED <<engineVars, destinationPending, fieldVars>>
  /\ UNCHANGED <<addressInput, addressOptions, addressTimeout, lookups, lookupsStarted>>

\* the geocoder answers with no usable result, or the await throws
HandleAddressSelectFail(threw) ==
  /\ addressPending # Null
  /\ mapsError' = IF threw THEN lookupFailedText ELSE mapsError
  /\ addressLoading' = FALSE
  /\ addressPending' = Null
  /\ UNCHANGED <<engineVars, addressResult, addressClosestStop, destinationPending>>
  /\ UNCHANGED <<addressInput, addressOptions, addressTimeout, lookups, lookupsStarted>>
  /\ UNCHANGED fieldVars

\* the geocoder answers with result: applyAddressLocation, then the effect
HandleAddressSelectResolve(result) ==
  /\ addressPending # Null
  /\ LET applied == applyAddressLocation(addressPending.destination, result.location)
         closest == resnapEffect(result, destination, applied)
     IN  /\ addressResult' = [location |-> result.location]
         /\ addressClosestStop' = closest
         /\ origin' = stopOf(closest)
         /\ planResult' = plan(stopOf(closest), destination, nowMinutes,
                               destinationResult)
  /\ addressSelection' = selectionOf(result)
  /\ addressInput' = result.formatted_address
  /\ addressLoading' = FALSE
  /\ addressPending' = Null
  /\ UNCHANGED <<trips, stopTimesByTrip, destination, destinationResult, nowMinutes>>
  /\ UNCHANGED <<destinationPending, addressOptions, mapsError, addressTimeout,
                 lookups, lookupsStarted>>
  /\ UNCHANGED <<destinationInput, destinationSelection, timerVars>>

\* handleDestinationSelect(_, null)
HandleDestinationSelectClear ==
  /\ destinationResult' = Null
  /\ mapsError' = Null
  /\ destinationSelection' = Null
  /\ destination' = Null
  /\ origin' = Null
  /\ addressClosestStop' = Null
  /\ planResult' = Null   \* the memo without an origin and a destination
  /\ UNCHANGED <<trips, stopTimesByTrip, nowMinutes>>
  /\ UNCHANGED <<addressResult, addressPending, destinationPending>>
  /\ UNCHANGED <<addressInput, addressOptions, addressLoading, addressTimeout,
                 lookups, lookupsStarted>>
  /\ UNCHANGED <<destinationInput, addressSelection, timerVars>>

\* handleDestinationSelect(_, value) up to the await of the geocoder
HandleDestinationSelectStart ==
  /\ ~destinationPending
  /\ destinationResult' = Null
  /\ mapsError' = Null
  /\ destinationPending' = TRUE
  /\ planResult' = plan(origin, destination, nowMinutes, Null)
  /\ UNCHANGED <<trips, stopTimesByTrip, origin, destination, nowMinutes>>
  /\ UNCHANGED <<addressResult, addressClosestStop, addressPending>>
  /\ UNCHANGED <<addressInput, addressOptions, addressLoading, addressTimeout,
                 lookups, lookupsStarted>>
  /\ UNCHANGED fieldVars

\* the geocoder answers with no usable result, or the await throws
HandleDestinationSelectFail(threw) ==
  /\ destinationPending
  /\ mapsError' = IF threw THEN lookupFailedText ELSE mapsError
  /\ destinationPending' = FALSE
  /\ UNCHANGED <<engineVars, addressResult, addressClosestStop, addressPending>>
  /\ UNCHANGED <<addressInput, addressOptions, addressLoading, addressTimeout,
                 lookups, lookupsStarted>>
  /\ UNCHANGED fieldVars

\* the geocoder answers with result: applyDestinationLocation, then the
\* effect if the destination is another stop than before
HandleDestinationSelectResolve(result) ==
  /\ destinationPending
  /\ LET nearest == findNearestStop(stops, result.location.lat, result.location.lng)
         closest == IF nearest.stop # destination
                    THEN resnapEffect(addressResult, nearest.stop, addressClosestStop)
                    ELSE addressClosestStop
         newOrigin == IF nearest.stop # destination /\ addressResult # Null
                      THEN stopOf(closest) ELSE origin
     IN  /\ destinationResult' = [location |-> result.location]
         /\ destination' = nearest.stop
         /\ addressClosestStop' = closest
         /\ origin' = newOrigin
         /\ planResult' = plan(newOrigin, nearest.stop, nowMinutes,
                               [location |-> result.location])
  /\ destinationSelection' = selectionOf(result)
  /\ destinationInput' = result.formatted_address
  /\ destinationPending' = FALSE
  /\ UNCHANGED <<trips, stopTimesByTrip, nowMinutes>>
  /\ UNCHANGED <<addressResult, addressPending>>
  /\ UNCHANGED lookupVars
  /\ UNCHANGED <<addressSelection, timerVars>>

\* clearTimeout that cancels nothing
clearTimeoutKeeps(field, timeout) == timers

\* window.clearTimeout(timeout.current): the timer the ref of field names is
\* no longer pending
clearTimeout(field, timeout) ==
  IF timeout = Null THEN timers
  ELSE timers \ {[field |-> field, value |-> timeout.value]}

\* onInputChange of the origin field with reason 'clear'
AddressInputClear ==
  /\ addressInput' = <<>>
  /\ timers' = clearTimeout("address", addressTimeout)
  /\ addressOptions' = <<>>
  /\ addressSelection' = Null
  /\ addressClosestStop' = Null
  /\ addressResult' = Null
  /\ origin' = Null
  /\ planResult' = Null   \* the memo without an origin
  /\ addressLoading' = FALSE
  /\ UNCHANGED <<trips, stopTimesByTrip, destination, destinationResult, nowMinutes>>
  /\ UNCHANGED <<addressPending, destinationPending, mapsError, addressTimeout,
                 lookups, lookupsStarted>>
  /\ UNCHANGED <<destinationInput, destinationSelection, destinationTimeout,
                 destinationLookups>>

\* onInputChange of the destination field with reason 'clear'
DestinationInputClear ==
  /\ destinationInput' = <<>>
  /\ timers' = clearTimeout("destination", destinationTimeout)
  /\ destinationSelection' = Null
  /\ destinationResult' = Null
  /\ destination' = Null
  /\ origin' = Null
  /\ addressClosestStop' = Null
  /\ planResult' = Null   \* the memo without an origin and a destination
  /\ UNCHANGED <<trips, stopTimesByTrip, nowMinutes>>
  /\ UNCHANGED <<addressResult, addressPending, destinationPending, lookupVars>>
  /\ UNCHANGED <<addressSelection, destinationTimeout, destinationLookups>>

\* the state of the two address fields and of the stops snapped to them
formState ==
  [addressInput |-> addressInput, destinationInput |-> destinationInput,
   addressSelection |-> addressSelection,
   destinationSelection |-> destinationSelection,
   addressResult |-> addressResult, destinationResult |-> destinationResult,
   destination |-> destination, origin |-> origin,
   addressClosestStop |-> addressClosestStop]

\* handleSwapAddresses applied to form state s, up to its return
handleSwapAddresses(s) ==
  [addressInput |-> s.destinationInput, destinationInput |-> s.addressInput,
   addressSelection |-> s.destinationSelection,
   destinationSelection |-> s.addressSelection,
   addressResult |-> s.destinationResult, destinationResult |-> s.addressResult,
   destination |->
     IF s.addressResult # Null
     THEN findNearestStop(stops, s.addressResult.location.lat,
                          s.addressResult.location.lng).stop
     ELSE Null,
   origin |-> Null,
   addressClosestStop |-> Null]

\* the re-snap effect applied to form state s
resnapped(s) ==
  LET closest == resnapEffect(s.addressResult, s.destination, s.addressClosestStop)
  IN  [s EXCEPT !.addressClosestStop = closest, !.origin = stopOf(closest)]

\* the Swap button: handleSwapAddresses, then the effect, which runs when the
\* origin address result of the render is a new one and a destination is set
HandleSwapAddresses ==
  /\ LET next == resnapped(handleSwapAddresses(formState))
     IN  /\ addressInput' = next.addressInput
         /\ destinationInput' = next.destinationInput
         /\ addressSelection' = next.addressSelection
         /\ destinationSelection' = next.destinationSelection
         /\ addressResult' = next.addressResult
         /\ destinationResult' = next.destinationResult
         /\ destination' = next.destination
         /\ addressClosestStop' = next.addressClosestStop
         /\ origin' = next.origin
         /\ planResult' = plan(next.origin, next.destination, nowMinutes,
                               next.destinationResult)
  /\ UNCHANGED <<trips, stopTimesByTrip, nowMinutes>>
  /\ UNCHANGED <<addressPending, destinationPending, timerVars>>
  /\ UNCHANGED <<addressOptions, addressLoading, mapsError, addressTimeout,
                 lookups, lookupsStarted>>

NextSnap ==
  \/ HandleAddressSelectClear
  \/ HandleAddressSelectStart
  \/ \E threw \in BOOLEAN : HandleAddressSelectFail(threw)
  \/ \E result \in AddressGeocodes : HandleAddressSelectResolve(result)
  \/ HandleDestinationSelectClear
  \/ HandleDestinationSelectStart
  \/ \E threw \in BOOLEAN : HandleDestinationSelectFail(threw)
  \/ \E result \in DestinationGeocodes : HandleDestinationSelectResolve(result)
  \/ AddressInputClear
  \/ DestinationInputClear
  \/ HandleSwapAddresses

SnapSpec == InitSnap /\ [][NextSnap]_vars

(***************************************************************************)
(* The suggestions of the address fields: typing starts a debounce timer,  *)
(* the timer calls lookupAddressSuggestions or                             *)
(* lookupDestinationSuggestions, and that call waits for the predictions   *)
(* of the places service. A text is the sequence of its characters. Of the *)
(* destination field the options and the loading flag are left out.        *)
(***************************************************************************)
\* at most this many calls of lookupAddressSuggestions reach the service,
\* and at most this many of lookupDestinationSuggestions wait at a time
MaxLookups == 2

\* what may be typed into the field
InputValues == { <<>>, <<" ">>, <<"1">>, <<"1", "2">>, <<"1", "2", " ">> }

suggestionsFailedText == "Unable to load Google Maps suggestions."

\* String.prototype.trim
RECURSIVE trimStart(_)
trimStart(text) ==
  IF text # <<>> /\ Head(text) = " " THEN trimStart(Tail(text)) ELSE text

RECURSIVE trimEnd(_)
trimEnd(text) ==
  IF text # <<>> /\ text[Len(text)] = " "
  THEN trimEnd(SubSeq(text, 1, Len(text) - 1)) ELSE text

trim(text) == trimEnd(trimStart(text))

\* what fetchPlacePredictions may resolve to for a query: the predictions of
\* the service, or [] when its status is not OK
placePredictions(query) ==
  { <<>>, << [description |-> query, place_id |-> query, source |-> "google"] >> }

InitLookup ==
  /\ trips = pickTrips(1..MaxSnapTrips, 1)
  /\ stopTimesByTrip = buildStopTimesByTrip(pickRows(1..MaxSnapTrips, 1))
  /\ origin = Null
  /\ destination = Null
  /\ destinationResult = Null
  /\ nowMinutes = getNowMinutes(MaxNowHour, 0)
  /\ planResult = Null
  /\ InitForm

\* onInputChange of the origin field with another reason: the timer of the
\* ref is cleared and one for value is started
AddressInputChange(value) ==
  /\ addressInput' = value
  /\ addressLoading' = TRUE
  /\ timers' = clearTimeout("address", addressTimeout)
                 \cup {[field |-> "address", value |-> value]}
  /\ addressTimeout' = [value |-> value]
  /\ UNCHANGED <<engineVars, snapVars>>
  /\ UNCHANGED <<addressOptions, mapsError, lookups, lookupsStarted>>
  /\ UNCHANGED <<destinationInput, addressSelection, destinationSelection,
                 destinationTimeout, destinationLookups>>

\* onInputChange of the destination field with another reason
DestinationInputChange(value) ==
  /\ destinationInput' = value
  /\ timers' = clearTimeout("destination", destinationTimeout)
                 \cup {[field |-> "destination", value |-> value]}
  /\ destinationTimeout' = [value |-> value]
  /\ UNCHANGED <<engineVars, snapVars, lookupVars>>
  /\ UNCHANGED <<addressSelection, destinationSelection, destinationLookups>>

\* a debounce timer of the origin field fires: lookupAddressSuggestions(value)
\* up to its await
AddressTimeoutFires ==
  \E timer \in timers :
    /\ timer.field = "address"
    /\ timers' = timers \ {timer}
    /\ IF trim(timer.value) = <<>>
       THEN /\ addressOptions' = <<>>
            /\ addressLoading' = FALSE
            /\ UNCHANGED <<mapsError, lookups, lookupsStarted>>
       ELSE /\ lookupsStarted < MaxLookups
            /\ mapsError' = Null
            /\ lookupsStarted' = lookupsStarted + 1
            /\ lookups' = lookups \cup
                 {[id |-> lookupsStarted + 1, query |-> trim(timer.value)]}
            /\ UNCHANGED <<addressOptions, addressLoading>>
    /\ UNCHANGED <<engineVars, snapVars, addressInput, addressTimeout>>
    /\ UNCHANGED <<destinationInput, addressSelection, destinationSelection,
                   destinationTimeout, destinationLookups>>

\* a debounce timer of the destination field fires:
\* lookupDestinationSuggestions(value) up to its await
DestinationTimeoutFires ==
  \E timer \in timers :
    /\ timer.field = "destination"
    /\ timers' = timers \ {timer}
    /\ IF trim(timer.value) = <<>>
       THEN UNCHANGED <<mapsError, destinationLookups>>
       ELSE /\ Cardinality(destinationLookups) < MaxLookups
            /\ mapsError' = Null
            /\ destinationLookups' = destinationLookups \cup {trim(timer.value)}
    /\ UNCHANGED <<engineVars, snapVars>>
    /\ UNCHANGED <<addressInput, addressOptions, addressLoading, addressTimeout,
                   lookups, lookupsStarted>>
    /\ UNCHANGED <<destinationInput, addressSelection, destinationSelection,
                   destinationTimeout>>

\* fetchPlacePredictions of call r resolves with options
LookupResolves(r, options) ==
  /\ r \in lookups
  /\ lookups' = lookups \ {r}
  /\ addressOptions' = options
  /\ addressLoading' = FALSE
  /\ UNCHANGED <<engineVars, snapVars, fieldVars>>
  /\ UNCHANGED <<addressInput, mapsError, addressTimeout, lookupsStarted>>

\* fetchPlacePredictions of call r throws (Google Maps did not load)
LookupThrows(r) ==
  /\ r \in lookups
  /\ lookups' = lookups \ {r}
  /\ addressOptions' = <<>>
  /\ mapsError' = suggestionsFailedText
  /\ addressLoading' = FALSE
  /\ UNCHANGED <<engineVars, snapVars, fieldVars>>
  /\ UNCHANGED <<addressInput, addressTimeout, lookupsStarted>>

\* fetchPlacePredictions of the destination field's call for query resolves
\* (threw = FALSE) or throws
DestinationLookupCompletes(query, threw) ==
  /\ query \in destinationLookups
  /\ destinationLookups' = destinationLookups \ {query}
  /\ mapsError' = IF threw THEN suggestionsFailedText ELSE mapsError
  /\ UNCHANGED <<engineVars, snapVars>>
  /\ UNCHANGED <<addressInput, addressOptions, addressLoading, addressTimeout,
                 lookups, lookupsStarted>>
  /\ UNCHANGED <<destinationInput, addressSelection, destinationSelection,
                 destinationTimeout, timers>>

NextLookup ==
  \/ AddressInputClear
  \/ \E value \in InputValues : AddressInputChange(value)
  \/ AddressTimeoutFires
  \/ \E r \in lookups : \E options \in placePredictions(r.query) :
       LookupResolves(r, options)
  \/ \E r \in lookups : LookupThrows(r)
  \/ DestinationInputClear
  \/ \E value \in InputValues : DestinationInputChange(value)
  \/ DestinationTimeoutFires
  \/ \E query \in destinationLookups, threw \in BOOLEAN :
       DestinationLookupCompletes(query, threw)

LookupSpec == InitLookup /\ [][NextLookup]_vars

(***************************************************************************)
(* Vocabulary of the properties.                                           *)
(***************************************************************************)
\* a query of two different stops
Queried ==
  /\ origin # Null
  /\ destination # Null
  /\ origin.stop_id # destination.stop_id

destinationLocationNow ==
  IF destinationResult = Null THEN Null ELSE destinationResult.location

\* Step 1's candidates for the present query
candidatesNow == candidates(origin, destination, destinationLocationNow)

\* the plans of the transfer search for the present query, before sorting
transferPlansNow == transferPlans(origin, destination)

HasNote(r) == "serviceNote" \in DOMAIN r

\* the itineraries of a direct or transfer result, the next one first
Itineraries(r) ==
  IF r.kind = "direct" THEN <<r.nextTrip>> \o r.alternatives
  ELSE IF r.kind = "transfer" THEN <<r.nextTransfer>> \o r.alternatives
  ELSE <<>>

Range(s) == {s[i] : i \in 1..Len(s)}

\* the trips of the feed that have stop-times
TripsWithTimes == {t \in 1..Len(trips) : trips[t].trip_id \in DOMAIN stopTimesByTrip}

TimesOf(t) == stopTimesByTrip[trips[t].trip_id]

\* the result of the present query at another time of day
planAt(hours) ==
  plan(origin, destination, getNowMinutes(hours, 0), destinationResult)

\* C1: a transfer result is returned only when Step 1 yields no candidate;
\* with a direct candidate the result is direct at every time of day, also
\* when all direct candidates have left and a transfer itinerary has not.
C1_TransferOnlyWithoutDirect ==
  Queried =>
    /\ planResult.kind = "transfer" => Len(candidatesNow) = 0
    /\ Len(candidatesNow) > 0 =>
         /\ planResult.kind = "direct"
         /\ \A h \in NowHours : planAt(h).kind = "direct"

\* C1's case: every direct candidate has left, a transfer plan leaves at or
\* after now, and the result is direct
C1_Witness ==
  /\ Queried
  /\ Len(candidatesNow) > 0
  /\ \A c \in Range(candidatesNow) : timeToMinutes(c.boardTime) < nowMinutes
  /\ \E p \in Range(transferPlansNow) :
        timeToMinutes(p.firstLeg.boardTime) >= nowMinutes
  /\ planResult.kind = "direct"

\* a direct candidate c rides trip t from row b to a later row a
RidesRows(c, t, b, a) ==
  LET st == TimesOf(t)
  IN  /\ c.trip = trips[t]
      /\ b < a
      /\ st[b].stop_id = origin.stop_id
      /\ c.boardStop = origin
      /\ c.boardTime = st[b].departure_time
      /\ c.boardSequence = st[b].stop_sequence
      /\ c.alightStop.stop_id = st[a].stop_id
      /\ c.alightTime = st[a].arrival_time
      /\ c.alightSequence = st[a].stop_sequence
      /\ timeToMinutes(st[a].arrival_time) > timeToMinutes(st[b].departure_time)

\* C2: every direct candidate of the result boards at the origin row of its
\* trip at that row's departure time, alights at a later row of the same
\* trip that arrives strictly later, with boardSequence < alightSequence;
\* without a destination coordinate it alights at the destination stop.
C2_DirectCandidateShape ==
  planResult.kind = "direct" =>
    \A c \in Range(Itineraries(planResult)) :
      /\ \E t \in TripsWithTimes :
           \E b \in 1..Len(TimesOf(t)), a \in 1..Len(TimesOf(t)) :
             RidesRows(c, t, b, a)
      /\ c.boardSequence < c.alightSequence
      /\ destinationResult = Null => c.alightStop = destination

\* C2's case: a direct result without a coordinate, from a feed in which
\* another trip runs from the origin to the destination but is no candidate
C2_Witness ==
  /\ planResult.kind = "direct"
  /\ destinationResult = Null
  /\ \E t \in TripsWithTimes :
       /\ \E b \in 1..Len(TimesOf(t)), a \in 1..Len(TimesOf(t)) :
            /\ b < a
            /\ TimesOf(t)[b].stop_id = origin.stop_id
            /\ TimesOf(t)[a].stop_id = destination.stop_id
       /\ \A c \in Range(Itineraries(planResult)) : c.trip # trips[t]

\* the candidates of Step 1 that leave at or after now
UpcomingCandidates ==
  {i \in 1..Len(candidatesNow) : timeToMinutes(candidatesNow[i].boardTime) >= nowMinutes}

\* C3: with a direct candidate leaving at or after now, the result is direct
\* without a note, nextTrip leaves earliest among those candidates and the
\* alternatives are exactly the others of them.
C3_UpcomingDirect ==
  (Queried /\ UpcomingCandidates # {}) =>
    /\ planResult.kind = "direct"
    /\ ~HasNote(planResult)
    /\ \A i \in UpcomingCandidates :
         timeToMinutes(planResult.nextTrip.boardTime)
           <= timeToMinutes(candidatesNow[i].boardTime)
    /\ Range(Itineraries(planResult)) = {candidatesNow[i] : i \in UpcomingCandidates}
    /\ Len(Itineraries(planResult)) = Cardinality(UpcomingCandidates)

\* C3's case: some candidates have left, one leaves this very minute
C3_Witness ==
  /\ Queried
  /\ UpcomingCandidates # {}
  /\ Cardinality(UpcomingCandidates) < Len(candidatesNow)
  /\ \E i \in UpcomingCandidates :
       timeToMinutes(candidatesNow[i].boardTime) = nowMinutes
  /\ planResult.kind = "direct"
  /\ Len(planResult.alternatives) > 0

\* C4: when every direct candidate left before now, the result is direct,
\* nextTrip leaves earliest of all, the alternatives are all the others and
\* the note is the end-of-service text; a direct result has a note exactly
\* when no candidate leaves at or after now.
C4_DirectRollover ==
  /\ (Queried /\ Len(candidatesNow) > 0 /\ UpcomingCandidates = {}) =>
       /\ planResult.kind = "direct"
       /\ \A c \in Range(candidatesNow) :
            timeToMinutes(planResult.nextTrip.boardTime) <= timeToMinutes(c.boardTime)
       /\ Range(Itineraries(planResult)) = Range(candidatesNow)
       /\ Len(Itineraries(planResult)) = Len(candidatesNow)
       /\ HasNote(planResult)
       /\ planResult.serviceNote
            = "No more departures today. Showing the next available trip."
  /\ planResult.kind = "direct" => (HasNote(planResult) <=> UpcomingCandidates = {})

\* C4's case: two candidates, both gone
C4_Witness ==
  /\ Queried
  /\ Len(candidatesNow) > 1
  /\ UpcomingCandidates = {}
  /\ planResult.kind = "direct"
  /\ HasNote(planResult)

\* C5: in every plan of a transfer result the first leg boards at the
\* origin, the second leg alights at the destination, the transfer stop is
\* where the first leg ends and the second begins, layoverMinutes and
\* totalMinutes are the stated differences, and neither is negative.
C5_TransferPlanShape ==
  planResult.kind = "transfer" =>
    \A p \in Range(Itineraries(planResult)) :
      /\ p.firstLeg.boardStop = origin
      /\ p.secondLeg.alightStop = destination
      /\ p.transferStop = p.firstLeg.alightStop
      /\ p.transferStop = p.secondLeg.boardStop
      /\ p.layoverMinutes
           = timeToMinutes(p.secondLeg.boardTime) - timeToMinutes(p.firstLeg.alightTime)
      /\ p.layoverMinutes >= 0
      /\ p.totalMinutes
           = timeToMinutes(p.secondLeg.alightTime) - timeToMinutes(p.firstLeg.boardTime)
      /\ p.totalMinutes >= 0

\* trip t1 runs from the origin (row b) to stop S (row a) and trip t2 from
\* S (row i) to the destination (row j)
LegPair(t1, b, a, t2, i, j) ==
  /\ b < a
  /\ i < j
  /\ TimesOf(t1)[b].stop_id = origin.stop_id
  /\ TimesOf(t1)[a].stop_id \in DOMAIN stopById
  /\ TimesOf(t2)[i].stop_id = TimesOf(t1)[a].stop_id
  /\ TimesOf(t2)[j].stop_id = destination.stop_id

LayoverOf(t1, a, t2, i) ==
  timeToMinutes(TimesOf(t2)[i].departure_time) - timeToMinutes(TimesOf(t1)[a].arrival_time)

TotalOf(t1, b, t2, j) ==
  timeToMinutes(TimesOf(t2)[j].arrival_time) - timeToMinutes(TimesOf(t1)[b].departure_time)

\* <<layover, total>> of every leg pair the feed holds for the present query
LegPairTimes ==
  UNION {
    UNION {
      {<<LayoverOf(t1, q[2], t2, q[3]), TotalOf(t1, q[1], t2, q[4])>> :
         q \in {r \in (1..Len(TimesOf(t1))) \X (1..Len(TimesOf(t1)))
                       \X (1..Len(TimesOf(t2))) \X (1..Len(TimesOf(t2))) :
                  LegPair(t1, r[1], r[2], t2, r[3], r[4])}}
      : t2 \in TripsWithTimes}
    : t1 \in TripsWithTimes}

\* C5's case: a transfer result from a feed that also holds a pairing with a
\* negative layover and one with a negative total
C5_Witness ==
  /\ planResult.kind = "transfer"
  /\ \E q \in LegPairTimes : q[1] < 0
  /\ \E q \in LegPairTimes : q[1] >= 0 /\ q[2] < 0

\* C6 (as claimed): for two different stops the no-coverage error is
\* returned exactly when there is neither a direct candidate nor a pair of
\* legs through a shared stop with layover >= 0 and total >= 0.
C6_NoCoverageExactly ==
  Queried =>
    (planResult = [kind |-> "error", error |-> "No trips found between those stops."]
       <=> /\ Len(candidatesNow) = 0
           /\ ~\E q \in LegPairTimes : q[1] >= 0 /\ q[2] >= 0)

\* C7: a query from a stop to itself is answered by the same-stop error, at
\* every time of day and for every feed.
C7_SameStopError ==
  (origin # Null /\ destination # Null /\ origin.stop_id = destination.stop_id) =>
    /\ planResult = [kind |-> "error", error |-> "Pick two different stops to build a route."]
    /\ \A h \in NowHours : planAt(h) = planResult

\* C7's case: origin = destination on a feed with a trip that leaves the
\* stop and comes back to it
C7_Witness ==
  /\ origin # Null
  /\ destination # Null
  /\ origin.stop_id = destination.stop_id
  /\ \E t \in TripsWithTimes :
       \E b \in 1..Len(TimesOf(t)), a \in 1..Len(TimesOf(t)) :
         /\ b < a
         /\ TimesOf(t)[b].stop_id = origin.stop_id
         /\ TimesOf(t)[a].stop_id = origin.stop_id
  /\ planResult.kind = "error"

\* the plans of the transfer search that leave at or after now
UpcomingPlans ==
  {i \in 1..Len(transferPlansNow) :
     timeToMinutes(transferPlansNow[i].firstLeg.boardTime) >= nowMinutes}

\* nothing of the result's kind leaves at or after now
NothingDeparts ==
  IF planResult.kind = "direct" THEN UpcomingCandidates = {} ELSE UpcomingPlans = {}

\* C8: end of service is no error: the kind of the result is the same at
\* every time of day, and when a direct candidate or a transfer plan exists
\* the result carries a next itinerary, with a note when nothing leaves at or
\* after now.
C8_EndOfServiceNoError ==
  Queried =>
    /\ \A h \in NowHours : planAt(h).kind = planResult.kind
    /\ (Len(candidatesNow) > 0 \/ Len(transferPlansNow) > 0) =>
         /\ planResult.kind \in {"direct", "transfer"}
         /\ Len(Itineraries(planResult)) >= 1
         /\ NothingDeparts => HasNote(planResult)

\* C8's case: a direct result after the last departure of the day
C8_Witness ==
  /\ Queried
  /\ Len(candidatesNow) > 0
  /\ \A c \in Range(candidatesNow) : timeToMinutes(c.boardTime) < nowMinutes
  /\ planResult.kind = "direct"
  /\ \E h \in NowHours : ~HasNote(planAt(h))

\* plan a is not after plan b in the order of the transfer result
PlanOrder(a, b) ==
  \/ timeToMinutes(a.firstLeg.boardTime) < timeToMinutes(b.firstLeg.boardTime)
  \/ /\ timeToMinutes(a.firstLeg.boardTime) = timeToMinutes(b.firstLeg.boardTime)
     /\ a.totalMinutes <= b.totalMinutes

\* C9: the plans of a transfer result are in ascending order of first-leg
\* boarding time, then totalMinutes; they are the plans leaving at or after
\* now, without a note, or, when there is none, all plans with the
\* end-of-service note.
C9_TransferSelection ==
  planResult.kind = "transfer" =>
    LET its == Itineraries(planResult)
    IN  /\ \A i \in 1..Len(its), j \in 1..Len(its) : i < j => PlanOrder(its[i], its[j])
        /\ IF UpcomingPlans # {}
           THEN /\ Range(its) = {transferPlansNow[i] : i \in UpcomingPlans}
                /\ Len(its) = Cardinality(UpcomingPlans)
                /\ ~HasNote(planResult)
           ELSE /\ Range(its) = Range(transferPlansNow)
                /\ Len(its) = Len(transferPlansNow)
                /\ HasNote(planResult)
                /\ planResult.serviceNote
                     = "No more departures today. Showing the next available trip."

\* C9's case: two plans of the result leave at the same minute and differ
\* in totalMinutes
C9_Witness ==
  /\ planResult.kind = "transfer"
  /\ ~HasNote(planResult)
  /\ \E a \in Range(planResult.alternatives) :
       /\ a.firstLeg.boardTime = planResult.nextTransfer.firstLeg.boardTime
       /\ a.totalMinutes > planResult.nextTransfer.totalMinutes

\* the sort key of an itinerary: boarding time, then (transfer) totalMinutes
KeyLeq(kind, a, b) ==
  IF kind = "direct"
  THEN timeToMinutes(a.boardTime) <= timeToMinutes(b.boardTime)
  ELSE PlanOrder(a, b)

\* C10: the alternatives of a direct or transfer result are in ascending
\* order of their sort key, none has a key below that of the next itinerary,
\* and no itinerary appears twice in the result.
C10_AlternativesOrdered ==
  planResult.kind \in {"direct", "transfer"} =>
    LET alts == planResult.alternatives
        next == Head(Itineraries(planResult))
    IN  /\ \A i \in 1..Len(alts), j \in 1..Len(alts) :
             i < j => KeyLeq(planResult.kind, alts[i], alts[j])
        /\ \A i \in 1..Len(alts) : KeyLeq(planResult.kind, next, alts[i])
        /\ \A i \in 1..Len(alts) : alts[i] # next
        /\ \A i \in 1..Len(alts), j \in 1..Len(alts) : i # j => alts[i] # alts[j]

\* C10's case: a direct result with two alternatives leaving at different
\* times
C10_Witness ==
  /\ planResult.kind = "direct"
  /\ Len(planResult.alternatives) >= 2
  /\ planResult.alternatives[1].boardTime # planResult.alternatives[2].boardTime

(***************************************************************************)
(* The reachability filter.                                                *)
(***************************************************************************)
\* the eligible origins for the destination of the present state
eligibleNow == buildEligibleStopIds(destination)

\* stop x is at a row of trip t before a row of stop y
Precedes(t, x, y) ==
  \E i \in 1..Len(TimesOf(t)), j \in 1..Len(TimesOf(t)) :
    /\ i < j
    /\ TimesOf(t)[i].stop_id = x
    /\ TimesOf(t)[j].stop_id = y

\* the stop ids of the rows of stop_times.txt
RowStopIds ==
  UNION {{TimesOf(t)[i].stop_id : i \in 1..Len(TimesOf(t))} : t \in TripsWithTimes}

\* C11: the eligible origins of destination D contain every stop that
\* precedes D on a trip, and every stop X that precedes, on some trip, a
\* stop Y that precedes D on some trip.
C11_EligibleContainsPredecessors ==
  destination # Null =>
    \A x \in RowStopIds :
      /\ (\E t \in TripsWithTimes : Precedes(t, x, destination.stop_id))
           => x \in eligibleNow
      /\ (\E y \in RowStopIds :
            /\ \E t \in TripsWithTimes : Precedes(t, x, y)
            /\ \E t \in TripsWithTimes : Precedes(t, y, destination.stop_id))
           => x \in eligibleNow

(***************************************************************************)
(* The nearest-stop resolver.                                              *)
(***************************************************************************)
\* r names the stop of list closest to location, the first such stop in the
\* order of list, with its distance
FirstNearest(list, location, r) ==
  \E i \in 1..Len(list) :
    /\ r.stop = list[i]
    /\ r.distanceKm = haversineDistanceKm(list[i], location.lat, location.lng)
    /\ \A j \in 1..Len(list) :
         haversineDistanceKm(list[j], location.lat, location.lng) >= r.distanceKm
    /\ \A j \in 1..(i - 1) :
         haversineDistanceKm(list[j], location.lat, location.lng) > r.distanceKm

\* the list the origin is snapped to for the destination of the present state
snapListNow ==
  IF Len(eligibleStopsForDestination(destination)) > 0
  THEN eligibleStopsForDestination(destination)
  ELSE stops

\* C12: the stop findNearestStop answers is at the least distance of its
\* list from the coordinate, distanceKm is that distance, and of several
\* stops at the least distance it is the first of the list. It is applied to
\* stops for the destination address and to the snap list for the origin.
C12_FindNearestStop ==
  /\ (destination # Null /\ destinationResult # Null) =>
       FirstNearest(stops, destinationResult.location,
         [stop |-> destination,
          distanceKm |-> haversineDistanceKm(destination,
                           destinationResult.location.lat,
                           destinationResult.location.lng)])
  /\ (addressResult # Null /\ destination # Null) =>
       /\ addressClosestStop # Null
       /\ FirstNearest(snapListNow, addressResult.location, addressClosestStop)

\* C12's case: the origin address is as close to a later stop of the snap
\* list as to the stop answered
C12_Witness ==
  /\ addressResult # Null
  /\ destination # Null
  /\ addressClosestStop # Null
  /\ \E j \in 1..Len(snapListNow) :
       /\ snapListNow[j] # addressClosestStop.stop
       /\ haversineDistanceKm(snapListNow[j], addressResult.location.lat,
                              addressResult.location.lng)
            = addressClosestStop.distanceKm

\* the lists pickNearestStop may be given in the present state
StopLists == {<<>>, stops, eligibleStopsForDestination(destination)}

\* C20: pickNearestStop answers the nearest stop of primary when primary is
\* not empty, else the nearest stop of fallback when that is not empty, and
\* null only when both are empty; so an origin address with a destination
\* that has no eligible origin is snapped to the nearest of all stops.
C20_PickNearestStop ==
  addressResult # Null =>
    /\ \A primary \in StopLists, fallback \in StopLists :
         LET r == pickNearestStop(primary, fallback, addressResult.location.lat,
                                  addressResult.location.lng)
         IN  /\ r = Null <=> (Len(primary) = 0 /\ Len(fallback) = 0)
             /\ Len(primary) > 0 =>
                  r # Null /\ FirstNearest(primary, addressResult.location, r)
             /\ (Len(primary) = 0 /\ Len(fallback) > 0) =>
                  r # Null /\ FirstNearest(fallback, addressResult.location, r)
    /\ (destination # Null /\ Len(eligibleStopsForDestination(destination)) = 0) =>
         /\ addressClosestStop # Null
         /\ FirstNearest(stops, addressResult.location, addressClosestStop)
         /\ origin = addressClosestStop.stop

\* C20's case: the destination has no eligible origin and the origin is
\* snapped all the same
C20_Witness ==
  /\ addressResult # Null
  /\ destination # Null
  /\ Len(eligibleStopsForDestination(destination)) = 0
  /\ origin # Null

(***************************************************************************)
(* The suggestion lookups.                                                 *)
(***************************************************************************)
\* C13: when a lookup completes although a newer lookup of the field has
\* been started, the field's options, loading flag and error stay as they
\* are.
C13_LastRequestWins ==
  [][\A r \in lookups :
       (r \notin lookups' /\ r.id < lookupsStarted) =>
          UNCHANGED <<addressOptions, addressLoading, mapsError>>]_vars

(***************************************************************************)
(* The schedule index.                                                     *)
(***************************************************************************)
\* the rows of stop_times.txt of the feed that is loaded, in file order
stopTimesRows ==
  pickRows({i \in 1..Len(TripPool) : TripPool[i].trip \in Range(trips)}, 1)

\* the places in rows of the rows of trip id
RowsOf(rows, id) == {i \in 1..Len(rows) : rows[i].trip_id = id}

\* list holds each row of trip id once, at ascending stop_sequence, rows of
\* equal stop_sequence in the order of rows
IndexesRowsOf(rows, id, list) ==
  LET places == RowsOf(rows, id)
  IN  /\ Len(list) = Cardinality(places)
      /\ \E f \in [1..Len(list) -> places] :
           /\ \A k \in 1..Len(list) : list[k] = rows[f[k]]
           /\ \A k \in 1..Len(list), l \in 1..Len(list) :
                k < l =>
                  \/ list[k].stop_sequence < list[l].stop_sequence
                  \/ /\ list[k].stop_sequence = list[l].stop_sequence
                     /\ f[k] < f[l]

\* C14: stopTimesByTrip has an entry for exactly the trip ids of the rows of
\* stop_times.txt, and the entry of a trip holds exactly the rows of that
\* trip, ascending by stop_sequence and in file order where that is equal.
C14_ScheduleIndex ==
  LET rows == stopTimesRows
  IN  /\ DOMAIN stopTimesByTrip = {rows[i].trip_id : i \in 1..Len(rows)}
      /\ \A id \in DOMAIN stopTimesByTrip :
           IndexesRowsOf(rows, id, stopTimesByTrip[id])

\* C14's case: the file lists a trip's rows out of order, another trip has
\* two rows of one stop_sequence, and a third trip is listed as well
C14_Witness ==
  /\ \E i \in 1..Len(stopTimesRows), j \in 1..Len(stopTimesRows) :
       /\ i < j
       /\ stopTimesRows[i].trip_id = stopTimesRows[j].trip_id
       /\ stopTimesRows[i].stop_sequence > stopTimesRows[j].stop_sequence
  /\ \E i \in 1..Len(stopTimesRows), j \in 1..Len(stopTimesRows) :
       /\ i < j
       /\ stopTimesRows[i].trip_id = stopTimesRows[j].trip_id
       /\ stopTimesRows[i].stop_sequence = stopTimesRows[j].stop_sequence
  /\ Cardinality(DOMAIN stopTimesByTrip) > 2

(***************************************************************************)
(* Feeds with rows that do not resolve.                                    *)
(***************************************************************************)
\* the CandidateTrips of a result: its direct candidates, or both legs of
\* each of its transfer plans
LegsOf(r) ==
  IF r.kind = "direct" THEN Range(Itineraries(r))
  ELSE IF r.kind = "transfer"
  THEN {p.firstLeg : p \in Range(Itineraries(r))}
         \cup {p.secondLeg : p \in Range(Itineraries(r))}
  ELSE {}

\* the stop ids of stop_times.txt that stops.txt does not have
GhostStopIds == RowStopIds \ DOMAIN stopById

\* C15: whatever the feed, a query of two different stops gets an error, a
\* direct or a transfer result, and every CandidateTrip of the result has a
\* boarding and an alighting stop of stops.txt (its route may be missing);
\* a transfer plan changes at a stop of stops.txt.
C15_UnresolvedSkipped ==
  Queried =>
    /\ planResult.kind \in {"error", "direct", "transfer"}
    /\ \A c \in LegsOf(planResult) :
         /\ c.boardStop \in Range(stops)
         /\ c.alightStop \in Range(stops)
    /\ planResult.kind = "transfer" =>
         \A p \in Range(Itineraries(planResult)) : p.transferStop \in Range(stops)

\* C15's case: a transfer result on trips that both call at a stop missing
\* from stops.txt, one of them on a route missing from routes.txt, in a feed
\* that also lists a trip without stop-times
C15_Witness ==
  /\ Queried
  /\ planResult.kind = "transfer"
  /\ \E t \in TripsWithTimes :
       /\ planResult.nextTransfer.firstLeg.trip = trips[t]
       /\ \E i \in 1..Len(TimesOf(t)) : TimesOf(t)[i].stop_id \in GhostStopIds
  /\ \E t \in TripsWithTimes :
       /\ planResult.nextTransfer.secondLeg.trip = trips[t]
       /\ \E i \in 1..Len(TimesOf(t)) : TimesOf(t)[i].stop_id \in GhostStopIds
  /\ planResult.nextTransfer.secondLeg.route = Null
  /\ \E t \in 1..Len(trips) : t \notin TripsWithTimes

(***************************************************************************)
(* The proximity fallback.                                                 *)
(***************************************************************************)
\* the row at which trip t is boarded for the present query
BoardIndexOf(t) == findIndex(TimesOf(t), origin.stop_id, 0)

\* trip t calls at the destination after that row
HasDestinationAfterBoard(t) ==
  findIndex(TimesOf(t), destination.stop_id, BoardIndexOf(t)) >= 1

\* C17: a candidate alights elsewhere than at the destination stop only
\* when a destination coordinate is given and its trip has no row of the
\* destination stop after the boarding row.
C17_FallbackOnlyWithoutExact ==
  planResult.kind = "direct" =>
    \A c \in Range(Itineraries(planResult)) :
      c.alightStop # destination =>
        /\ destinationResult # Null
        /\ \A t \in TripsWithTimes :
             c.trip = trips[t] => ~HasDestinationAfterBoard(t)

(***************************************************************************)
(* The reachability filter against the search.                             *)
(***************************************************************************)
\* the result for origin stop x and the destination of the state at a full
\* hour, without a destination coordinate
planFrom(x, hours) == plan(x, destination, getNowMinutes(hours, 0), Null)

\* C18 as the specification states it: from every eligible origin other
\* than the destination the search finds an itinerary at every time of day,
\* that is, it does not answer that no trips were found.
C18_FilterSoundForSearch ==
  destination # Null =>
    \A x \in Range(stops) :
      (x.stop_id \in eligibleNow /\ x # destination) =>
        \A h \in NowHours : planFrom(x, h) # noTripsError

\* C18: every eligible origin precedes the destination on some trip, or
\* precedes on some trip a stop that precedes the destination on some trip
\* (the times of those rows are not looked at).
C18_FilterSoundForStopOrder ==
  destination # Null =>
    \A x \in eligibleNow :
      \/ \E t \in TripsWithTimes : Precedes(t, x, destination.stop_id)
      \/ \E y \in RowStopIds :
           /\ \E t \in TripsWithTimes : Precedes(t, x, y)
           /\ \E t \in TripsWithTimes : Precedes(t, y, destination.stop_id)

\* C18's case: the origin is an eligible stop, reached only through a
\* transfer stop, and the search finds no trips
C18_Witness ==
  /\ Queried
  /\ destinationResult = Null
  /\ origin.stop_id \in eligibleNow
  /\ origin.stop_id \notin directReachable(destination)
  /\ planResult = noTripsError

\* C19: a stop from which the search answers direct or transfer without a
\* destination coordinate is an eligible origin of the destination.
C19_FilterComplete ==
  (Queried /\ destinationResult = Null /\ planResult.kind \in {"direct", "transfer"})
    => origin.stop_id \in eligibleNow

(***************************************************************************)
(* Service past midnight.                                                  *)
(***************************************************************************)
\* the minutes a time of the feed is past 00:00 of its service day, the
\* hours counted as written (the feed has no seconds)
ClockMinutes(time) == time[1] * 60 + time[2]

\* the plans of a transfer result that pair rows a of t1 and i of t2
PlansOver(r, t1, a, t2, i) ==
  {p \in Range(Itineraries(r)) :
     /\ p.firstLeg.trip = trips[t1]
     /\ p.firstLeg.alightTime = TimesOf(t1)[a].arrival_time
     /\ p.secondLeg.trip = trips[t2]
     /\ p.secondLeg.boardTime = TimesOf(t2)[i].departure_time}

\* C21: times are minutes since midnight without wraparound. The direct
\* itineraries are in the order of their written boarding times, 24:10 after
\* 23:50; a candidate that boards at 24:00 or later is in the result at any
\* time of day, without a note; the layover of a plan is the written
\* departure of the second leg minus the written arrival of the first, and
\* a pairing of the rollover-free result is there exactly when that
\* difference and the total are not negative.
C21_NoWraparound ==
  /\ planResult.kind = "direct" =>
       /\ \A i \in 1..Len(Itineraries(planResult)), j \in 1..Len(Itineraries(planResult)) :
            i < j => ClockMinutes(Itineraries(planResult)[i].boardTime)
                       <= ClockMinutes(Itineraries(planResult)[j].boardTime)
       /\ \A c \in Range(candidatesNow) :
            c.boardTime[1] >= 24 =>
              /\ c \in Range(Itineraries(planResult))
              /\ ~HasNote(planResult)
  /\ planResult.kind = "transfer" =>
       /\ \A p \in Range(Itineraries(planResult)) :
            /\ p.layoverMinutes = ClockMinutes(p.secondLeg.boardTime)
                                    - ClockMinutes(p.firstLeg.alightTime)
            /\ p.layoverMinutes >= 0
       /\ HasNote(planResult) =>
            \A t1 \in TripsWithTimes, t2 \in TripsWithTimes :
              \A b \in 1..Len(TimesOf(t1)), a \in 1..Len(TimesOf(t1)),
                 i \in 1..Len(TimesOf(t2)), j \in 1..Len(TimesOf(t2)) :
                LegPair(t1, b, a, t2, i, j) =>
                  ( PlansOver(planResult, t1, a, t2, i) # {}
                    <=> /\ ClockMinutes(TimesOf(t2)[i].departure_time)
                             >= ClockMinutes(TimesOf(t1)[a].arrival_time)
                        /\ ClockMinutes(TimesOf(t2)[j].arrival_time)
                             >= ClockMinutes(TimesOf(t1)[b].departure_time) )

\* C21's case: a first leg that arrives at 23:50 is paired with the second
\* leg of 24:10, layover 20, in a feed that also has that leg as 00:10
C21_Witness ==
  /\ planResult.kind = "transfer"
  /\ planResult.nextTransfer.firstLeg.alightTime = <<23, 50, 0>>
  /\ planResult.nextTransfer.secondLeg.boardTime = <<24, 10, 0>>
  /\ planResult.nextTransfer.layoverMinutes = 20
  /\ \E t \in TripsWithTimes :
       \E i \in 1..Len(TimesOf(t)) :
         /\ TimesOf(t)[i].stop_id = planResult.nextTransfer.transferStop.stop_id
         /\ TimesOf(t)[i].departure_time = <<0, 10, 0>>
  /\ \A p \in Range(Itineraries(planResult)) : p.secondLeg.boardTime # <<0, 10, 0>>

(***************************************************************************)
(* The two legs of a transfer plan.                                        *)
(***************************************************************************)
\* C24: the two legs of every transfer plan of the result are on different
\* trips.
C24_LegsOnDifferentTrips ==
  planResult.kind = "transfer" =>
    \A p \in Range(Itineraries(planResult)) : p.firstLeg.trip # p.secondLeg.trip

\* C25: the transfer stop of every transfer plan of the result is neither
\* the origin nor the destination.
C25_TransferStopApart ==
  planResult.kind = "transfer" =>
    \A p \in Range(Itineraries(planResult)) :
      /\ p.transferStop # origin
      /\ p.transferStop # destination

(* The destination and its own filter. *)
\* C26: the stop ids eligible as origin for the destination never include the
\* destination stop itself.
C26_DestinationNotEligible ==
  destination # Null => destination.stop_id \notin eligibleNow

(***************************************************************************)
(* The stops of the query and the addresses they come from.                *)
(***************************************************************************)
\* C27: an origin stop is set only while a destination stop is set.
C27_OriginNeedsDestination ==
  origin # Null => destination # Null

\* C28: an origin stop is set only while an origin address result is set, and
\* it is the stop of addressClosestStop.
C28_OriginNeedsAddress ==
  origin # Null =>
    /\ addressResult # Null
    /\ addressClosestStop # Null
    /\ addressClosestStop.stop = origin

\* stop is a stop of list at the least distance of list from location
Nearest(list, location, stop) ==
  \E i \in 1..Len(list) :
    /\ stop = list[i]
    /\ \A j \in 1..Len(list) :
         haversineDistanceKm(list[j], location.lat, location.lng)
           >= haversineDistanceKm(stop, location.lat, location.lng)

\* no handler is waiting for the geocoder
Settled == addressPending = Null /\ ~destinationPending

\* C22: when no handler is waiting and both an origin address result and a
\* destination stop are set, the origin is the stop of addressClosestStop and
\* is nearest to the address among the stops eligible for the destination (or
\* among all stops when none is eligible), whatever the order in which the
\* two were set.
C22_OriginSnappedWhenBothSet ==
  (Settled /\ addressResult # Null /\ destination # Null) =>
    /\ addressClosestStop # Null
    /\ origin = addressClosestStop.stop
    /\ Nearest(snapListNow, addressResult.location, origin)

\* C22's case: both are set, some stops are eligible for the destination and
\* the stop nearest to the address among all stops is not one of them
C22_Witness ==
  /\ Settled
  /\ addressResult # Null
  /\ destination # Null
  /\ origin # Null
  /\ Len(eligibleStopsForDestination(destination)) > 0
  /\ ~Nearest(stops, addressResult.location, origin)

(***************************************************************************)
(* The Swap button.                                                        *)
(***************************************************************************)
\* the form after the Swap button is pressed twice, the effect run after each
swappedTwice ==
  resnapped(handleSwapAddresses(resnapped(handleSwapAddresses(formState))))

\* C30: pressing Swap twice with nothing in between gives back the inputs,
\* the selections, the address results, the destination stop and, after the
\* effect, the origin stop.
C30_SwapTwiceRestores ==
  /\ swappedTwice.addressInput = addressInput
  /\ swappedTwice.destinationInput = destinationInput
  /\ swappedTwice.addressSelection = addressSelection
  /\ swappedTwice.destinationSelection = destinationSelection
  /\ swappedTwice.addressResult = addressResult
  /\ swappedTwice.destinationResult = destinationResult
  /\ swappedTwice.destination = destination
  /\ swappedTwice.origin = origin

(***************************************************************************)
(* The debounce timers. In LookupSpec the text of a field is changed by    *)
(* its onInputChange only, so addressInput and destinationInput are the    *)
(* values of the most recent keystroke (or '' after a 'clear').            *)
(***************************************************************************)
\* C23: after every step each field has at most one pending timer and that
\* timer is for the field's present text (so none for another text is left
\* after a keystroke or a 'clear'), and a lookup that the step sends to the
\* service is for the trimmed present text of its field.
C23_Debounce ==
  [][/\ \A t \in timers', u \in timers' : t.field = u.field => t = u
     /\ \A t \in timers' :
          t.value = IF t.field = "address" THEN addressInput' ELSE destinationInput'
     /\ \A r \in lookups' \ lookups : r.query = trim(addressInput)
     /\ \A query \in destinationLookups' \ destinationLookups :
          query = trim(destinationInput)]_vars

\* C23's case: the origin field's last timer was for a text that is looked
\* up, it is not pending and no lookup was ever made (it was cancelled by a
\* 'clear'), while a lookup of the destination field is in flight and a timer
\* for a later keystroke of that field is pending
C23_Witness ==
  /\ addressTimeout # Null
  /\ trim(addressTimeout.value) # <<>>
  /\ \A t \in timers : t.field # "address"
  /\ lookupsStarted = 0
  /\ destinationLookups # {}
  /\ \E t \in timers : t.field = "destination" /\ trim(t.value) \notin destinationLookups

\* work of the origin field that is not finished: a debounce timer that is
\* pending, a suggestion lookup or a geocoding in flight
addressWorkOutstanding ==
  \/ \E t \in timers : t.field = "address"
  \/ lookups # {}
  \/ addressPending # Null

\* C29: addressLoading is true while work of the origin field is outstanding.
C29_LoadingWhileOutstanding ==
  addressWorkOutstanding => addressLoading

====
